---- MODULE Spec2Model ----
(***************************************************************************)
(* csds-client (envoy-tools): the xDS dependency extraction of             *)
(* parseXdsRelationship, the rendering of generateGraph, the driver        *)
(* visualize, and the status table of printOutResponse_v2.                 *)
(*                                                                         *)
(* parseXdsRelationship is a scan over a decoded JSON tree.  The tree is   *)
(* revealed to the model one loop iteration at a time: each action is the  *)
(* body of one of the nested loops of the function, and what it reads from *)
(* the tree (a name, a route reference, a missing field) is its input.     *)
(* A failed Go type assertion `x.(T)` without `, ok` is a run-time panic;  *)
(* nothing in the package recovers, so the process ends there.             *)
(***************************************************************************)
EXTENDS Integers, Sequences, FiniteSets, TLC

\* ------------------------------------------------------------------ bounds
\* entity names are 1..MaxName (strings in the code; only equality and the
\* string order of the treeset matter)
MaxName == 2
\* listener / route-table / cluster elements scanned in one snapshot
MaxItems == 2
\* route references named by the filters of one listener, cluster names
\* named by the routes of one route table (repetitions counted)
MaxRefs == 2
\* client entries of one ClientStatusResponse
MaxClients == 2
\* PerXdsConfig entries of one client entry
MaxXds == 2
\* doRequest calls made by one ClientV2.Run
MaxRequests == 3

Names == 1..MaxName

\* ------------------------------------------------------------- containers
\* a Go map[string]T with keys in Names: a function on a subset of Names
EmptyMap == [k \in {} |-> 0]

Put(m, k, v) == [x \in (DOMAIN m) \cup {k} |-> IF x = k THEN v ELSE m[x]]

Range(s) == {s[i] : i \in DOMAIN s}

\* treeset.NewWithStringComparator(): kept as the sequence Values() returns,
\* ascending and without duplicates
NewSet == <<>>

TreeAddKeepDup(s, x) ==
    LET lo == SelectSeq(s, LAMBDA y : y <= x)
        hi == SelectSeq(s, LAMBDA y : y > x)
    IN  lo \o <<x>> \o hi

\* Set.Add(x): no change when x is present, else inserted at its place
TreeAdd(s, x) ==
    IF x \in Range(s) THEN s
    ELSE LET lo == SelectSeq(s, LAMBDA y : y < x)
             hi == SelectSeq(s, LAMBDA y : y > x)
         IN  lo \o <<x>> \o hi

\* the loop `for _, cluster := range clusters { cdsSet.Add(name) }`
RECURSIVE AddAll(_, _)
AddAll(s, cs) ==
    IF cs = <<>> THEN s ELSE AddAll(TreeAdd(s, Head(cs)), Tail(cs))

\* id := "LDS" + strconv.Itoa(idx): prefix and number (Itoa is injective)
ShortId(prefix, i) == <<prefix, i>>

\* GraphData{}: the zero value returned beside an error
NoGraph == [nodes |-> <<>>, relations |-> <<>>]

\* no text: generateGraph has not returned one
NoText == [none |-> TRUE]

\* config_graph.dot before visualize has created it
NoFile == [state |-> "absent", text |-> NoText]

\* a ClientConfig without node: GetNode() == nil
NoNode == [none |-> TRUE]

\* a nil error
NoErr == [site |-> "none", rsp |-> FALSE]

\* no client entry handled yet
NoEntry == [node |-> NoNode, xds |-> <<>>]

SeqsUpTo(S, n) == UNION {[1..k -> S] : k \in 0..n}

\* ------------------------------------------------------------------ state
VARIABLES
    pc,         \* where visualize / parseXdsRelationship stands
    arr,        \* the case of the switch the scan is in ("none" before any)
    idx,        \* index of the next element of the array being ranged over
    lds, rds, cds,          \* the three node maps
    ldsToRds, rdsToCds,     \* the two reference maps
    name,       \* name of the element being processed
    set,        \* its rdsSet / cdsSet
    gData,      \* what parseXdsRelationship returned
    ret,        \* what visualize returned ("none" while running)
    monitor,    \* visualize's monitor argument ("unread" until line 189)
    dot,        \* generateGraph's result in visualize
    browser,    \* "none" | "started" | "failed": the openBrowser call
    file,       \* config_graph.dot: absent, created (empty) or written
    dot2,       \* a second generateGraph result on the same GraphData
    log,        \* history: the elements scanned so far, in scan order, each
                \* with the names it named and the short id it was given
    named,      \* history: names the current element's filters/routes named
    steps,      \* history: Add calls made for the current element so far
    cause,      \* history: the missing or ill-shaped field that was hit
    nresp,      \* printOutResponse_v2: client entries handled so far
    entry,      \* printOutResponse_v2: the client entry handled last
    rows,       \* printOutResponse_v2: the lines printed for that entry
    banner,     \* printOutResponse_v2: the first line printed
    hasXdsConfig,   \* printOutResponse_v2's flag
    detail,     \* "none" | "called": the call of printDetailedConfig
    interval,   \* ClientV2.Run: c.opts.MonitorInterval (0: run once)
    conn,       \* c.clientConn: "none" | "open" | "closed"
    streams,    \* StreamClientStatus calls that returned a stream
    sent,       \* doRequest calls made
    oks,        \* doRequest calls that returned nil
    slept,      \* time.Sleep calls made
    recv,       \* what the last Recv gave: "none" | "EOF" | "resp" | "err"
    lastErr,    \* the error the last doRequest returned (NoErr: nil)
    closeSend   \* "none" | "ok" | "failed": the CloseSend call

parseVars == <<arr, idx, lds, rds, cds, ldsToRds, rdsToCds, name, set,
               log, named, steps, cause>>
vizVars == <<gData, ret, monitor, dot, browser, file, dot2>>
printVars == <<nresp, entry, rows, banner, hasXdsConfig, detail>>
runVars == <<interval, conn, streams, sent, oks, slept, recv, lastErr,
             closeSend>>
vars == <<pc, parseVars, vizVars, printVars, runVars>>

ParseInit ==
    /\ arr = "none" /\ idx = 0
    /\ lds = EmptyMap /\ rds = EmptyMap /\ cds = EmptyMap
    /\ ldsToRds = EmptyMap /\ rdsToCds = EmptyMap
    /\ name = 0 /\ set = NewSet
    /\ log = <<>> /\ named = {} /\ steps = 0 /\ cause = "none"

VizInit ==
    /\ gData = NoGraph /\ ret = "none" /\ dot = NoText /\ dot2 = NoText
    /\ monitor = "unread" /\ browser = "none" /\ file = NoFile

PrintInit ==
    /\ nresp = 0 /\ entry = NoEntry /\ rows = <<>> /\ banner = "none"
    /\ hasXdsConfig = FALSE /\ detail = "none"

RunInit ==
    /\ interval = 0 /\ conn = "none" /\ streams = 0 /\ sent = 0 /\ oks = 0
    /\ slept = 0 /\ recv = "none" /\ lastErr = NoErr /\ closeSend = "none"

Init ==
    /\ pc = "parse"
    /\ ParseInit /\ VizInit /\ PrintInit /\ RunInit

\* ------------------------------------------------- parseXdsRelationship
\* a run-time panic: the goroutine unwinds, no value is returned and the
\* locals of parseXdsRelationship are gone with its frame
Panic(c) ==
    /\ pc' = "panic"
    /\ cause' = c
    /\ lds' = EmptyMap /\ rds' = EmptyMap /\ cds' = EmptyMap
    /\ ldsToRds' = EmptyMap /\ rdsToCds' = EmptyMap
    /\ name' = 0 /\ set' = NewSet /\ idx' = 0
    /\ log' = <<>> /\ named' = {} /\ steps' = 0
    /\ UNCHANGED arr
    /\ UNCHANGED <<vizVars, printVars>>
    /\ UNCHANGED runVars

\* json.Unmarshal fails: return GraphData{}, err; visualize returns err
ParseUnmarshalError ==
    /\ pc = "parse" /\ arr = "none" /\ log = <<>>
    /\ pc' = "done"
    /\ gData' = NoGraph
    /\ ret' = "errUnmarshal"
    /\ UNCHANGED <<parseVars, monitor, dot, browser, file, dot2, printVars>>
    /\ UNCHANGED runVars

\* data["config"], configMap["xdsConfig"], an xds entry or the value of a
\* config key is not of the asserted shape
ParseTopPanic ==
    /\ pc = "parse"
    /\ \E c \in {"config", "xdsConfig", "xds", "value", "array"} : Panic(c)

\* the next key handled by the switch and the next array under it: a further
\* array of the same value map, a further xds entry or a further client
NextArray ==
    /\ pc = "parse"
    /\ \E k \in {"listenerConfig", "routeConfig", "clusterConfig"} :
          arr' = k
    /\ idx' = 0
    /\ UNCHANGED <<pc, lds, rds, cds, ldsToRds, rdsToCds, name, set,
                   log, named, steps, cause>>
    /\ UNCHANGED <<vizVars, printVars>>
    /\ UNCHANGED runVars

\* `if key == "status" { continue }` and keys the switch has no case for
SkipKey ==
    /\ pc = "parse"
    /\ UNCHANGED vars

\* lines 240-244: the listener's name, id and fresh rdsSet
ListenerBegin ==
    /\ pc = "parse" /\ arr = "listenerConfig" /\ Len(log) < MaxItems
    /\ \E n \in Names :
          /\ name' = n
          /\ lds' = Put(lds, n, ShortId("LDS", idx))
    /\ set' = NewSet
    /\ named' = {} /\ steps' = 0
    /\ pc' = "listener"
    /\ UNCHANGED <<arr, idx, rds, cds, ldsToRds, rdsToCds, log, cause>>
    /\ UNCHANGED <<vizVars, printVars>>
    /\ UNCHANGED runVars

\* line 240-241: activeState, listener or name is missing or ill-shaped
ListenerBeginPanic ==
    /\ pc = "parse" /\ arr = "listenerConfig" /\ Len(log) < MaxItems
    /\ \E c \in {"activeState", "listener", "listener.name"} : Panic(c)

\* line 246: detail["filterChains"] is absent (a listener with no filter
\* chain: protojson omits an empty repeated field) or not an array
ListenerNoFilterChains ==
    /\ pc = "listener" /\ steps = 0
    /\ Panic("filterChains")

\* line 247: a filter chain without "filters"
ChainNoFilters ==
    /\ pc = "listener"
    /\ Panic("filters")

\* line 248: the filter has no typedConfig, its typedConfig has no rds (a
\* payload of another type, or a connection manager with an inline route
\* configuration), or rds has no routeConfigName
FilterNoRouteRef ==
    /\ pc = "listener"
    /\ \E c \in {"typedConfig", "rds", "routeConfigName"} : Panic(c)

\* lines 248-249: one filter carrying rds.routeConfigName
FilterRds ==
    /\ pc = "listener" /\ steps < MaxRefs
    /\ \E r \in Names :
          /\ set' = TreeAdd(set, r)
          /\ named' = named \cup {r}
    /\ steps' = steps + 1
    /\ UNCHANGED <<pc, arr, idx, lds, rds, cds, ldsToRds, rdsToCds, name,
                   log, cause>>
    /\ UNCHANGED <<vizVars, printVars>>
    /\ UNCHANGED runVars

\* line 252 done only for a listener that named a route table
ListenerEndSkipEmpty ==
    /\ pc = "listener"
    /\ ldsToRds' = IF set = NewSet THEN ldsToRds ELSE Put(ldsToRds, name, set)
    /\ idx' = idx + 1
    /\ log' = Append(log, [kind |-> "LDS", name |-> name, refs |-> named,
                          id |-> ShortId("LDS", idx)])
    /\ pc' = "parse"
    /\ UNCHANGED <<arr, lds, rds, cds, rdsToCds, name, set, named, steps,
                   cause>>
    /\ UNCHANGED <<vizVars, printVars>>
    /\ UNCHANGED runVars

\* line 252: ldsToRds[name] = rdsSet, then the next listener of the array
ListenerEnd ==
    /\ pc = "listener"
    /\ ldsToRds' = Put(ldsToRds, name, set)
    /\ idx' = idx + 1
    /\ log' = Append(log, [kind |-> "LDS", name |-> name, refs |-> named,
                          id |-> ShortId("LDS", idx)])
    /\ pc' = "parse"
    /\ UNCHANGED <<arr, lds, rds, cds, rdsToCds, name, set, named, steps,
                   cause>>
    /\ UNCHANGED <<vizVars, printVars>>
    /\ UNCHANGED runVars

\* lines 258-262: the route table's name, id and fresh cdsSet
RouteBegin ==
    /\ pc = "parse" /\ arr = "routeConfig" /\ Len(log) < MaxItems
    /\ \E n \in Names :
          /\ name' = n
          /\ rds' = Put(rds, n, ShortId("RDS", idx))
    /\ set' = NewSet
    /\ named' = {} /\ steps' = 0
    /\ pc' = "route"
    /\ UNCHANGED <<arr, idx, lds, cds, ldsToRds, rdsToCds, log, cause>>
    /\ UNCHANGED <<vizVars, printVars>>
    /\ UNCHANGED runVars

\* lines 258-259: routeConfig or its name is missing or ill-shaped
RouteBeginPanic ==
    /\ pc = "parse" /\ arr = "routeConfig" /\ Len(log) < MaxItems
    /\ \E c \in {"routeConfig", "routeConfig.name"} : Panic(c)

\* line 264: routeConfig["virtualHosts"] is absent or not an array
RouteNoVirtualHosts ==
    /\ pc = "route" /\ steps = 0
    /\ Panic("virtualHosts")

\* lines 265-273: a virtual host without routes, a route without a route
\* action (a redirect, a direct response), weightedClusters without a
\* clusters array or a cluster without a name, an action with neither
\* weightedClusters nor cluster
RouteMalformed ==
    /\ pc = "route"
    /\ \E c \in {"routes", "route", "clusters", "clusters.name", "cluster"} :
          Panic(c)

\* lines 272-275: a route whose action names one cluster
RouteSingle ==
    /\ pc = "route" /\ steps < MaxRefs
    /\ \E c \in Names :
          /\ set' = TreeAdd(set, c)
          /\ named' = named \cup {c}
    /\ steps' = steps + 1
    /\ UNCHANGED <<pc, arr, idx, lds, rds, cds, ldsToRds, rdsToCds, name,
                   log, cause>>
    /\ UNCHANGED <<vizVars, printVars>>
    /\ UNCHANGED runVars

\* lines 267-271: a route whose action is a weighted set of clusters
RouteWeighted ==
    /\ pc = "route" /\ steps < MaxRefs
    /\ \E cs \in SeqsUpTo(Names, MaxRefs - steps) :
          /\ set' = AddAll(set, cs)
          /\ named' = named \cup Range(cs)
          /\ steps' = steps + Len(cs)
    /\ UNCHANGED <<pc, arr, idx, lds, rds, cds, ldsToRds, rdsToCds, name,
                   log, cause>>
    /\ UNCHANGED <<vizVars, printVars>>
    /\ UNCHANGED runVars

\* line 278 with the new set merged into the one the name had before
RouteEndUnion ==
    /\ pc = "route"
    /\ rdsToCds' = Put(rdsToCds, name,
                       IF name \in DOMAIN rdsToCds
                       THEN AddAll(rdsToCds[name], set) ELSE set)
    /\ idx' = idx + 1
    /\ log' = Append(log, [kind |-> "RDS", name |-> name, refs |-> named,
                          id |-> ShortId("RDS", idx)])
    /\ pc' = "parse"
    /\ UNCHANGED <<arr, lds, rds, cds, ldsToRds, name, set, named, steps,
                   cause>>
    /\ UNCHANGED <<vizVars, printVars>>
    /\ UNCHANGED runVars

\* line 278: rdsToCds[name] = cdsSet, then the next route table of the array
RouteEnd ==
    /\ pc = "route"
    /\ rdsToCds' = Put(rdsToCds, name, set)
    /\ idx' = idx + 1
    /\ log' = Append(log, [kind |-> "RDS", name |-> name, refs |-> named,
                          id |-> ShortId("RDS", idx)])
    /\ pc' = "parse"
    /\ UNCHANGED <<arr, lds, rds, cds, ldsToRds, name, set, named, steps,
                   cause>>
    /\ UNCHANGED <<vizVars, printVars>>
    /\ UNCHANGED runVars

\* lines 283-287: one cluster
ClusterItem ==
    /\ pc = "parse" /\ arr = "clusterConfig" /\ Len(log) < MaxItems
    /\ \E n \in Names :
          /\ cds' = Put(cds, n, ShortId("CDS", idx))
          /\ log' = Append(log, [kind |-> "CDS", name |-> n, refs |-> {},
                                   id |-> ShortId("CDS", idx)])
    /\ idx' = idx + 1
    /\ UNCHANGED <<pc, arr, lds, rds, ldsToRds, rdsToCds, name, set, named,
                   steps, cause>>
    /\ UNCHANGED <<vizVars, printVars>>
    /\ UNCHANGED runVars

\* line 284: cluster or its name is missing or ill-shaped
ClusterPanic ==
    /\ pc = "parse" /\ arr = "clusterConfig" /\ Len(log) < MaxItems
    /\ \E c \in {"cluster", "cluster.name"} : Panic(c)

\* lines 294-299: the scan is over, the five maps are returned as GraphData
\* and the frame of parseXdsRelationship is gone (the history stays)
ParseReturn ==
    /\ pc = "parse"
    /\ gData' = [nodes |-> <<lds, rds, cds>>,
                 relations |-> <<ldsToRds, rdsToCds>>]
    /\ pc' = "generate"
    /\ lds' = EmptyMap /\ rds' = EmptyMap /\ cds' = EmptyMap
    /\ ldsToRds' = EmptyMap /\ rdsToCds' = EmptyMap
    /\ name' = 0 /\ set' = NewSet /\ idx' = 0 /\ arr' = "none"
    /\ UNCHANGED <<log, named, steps, cause>>
    /\ UNCHANGED <<ret, monitor, dot, browser, file, dot2, printVars>>
    /\ UNCHANGED runVars

ParseNext ==
    \/ ParseUnmarshalError \/ ParseTopPanic \/ NextArray \/ SkipKey
    \/ ListenerBegin \/ ListenerBeginPanic \/ ListenerNoFilterChains
    \/ ChainNoFilters \/ FilterNoRouteRef \/ FilterRds \/ ListenerEnd
    \/ RouteBegin \/ RouteBeginPanic \/ RouteNoVirtualHosts
    \/ RouteMalformed \/ RouteSingle \/ RouteWeighted \/ RouteEnd
    \/ ClusterItem \/ ClusterPanic \/ ParseReturn

\* ---------------------------------------------------------- generateGraph
\* the orders in which `range` may walk a Go map: any order of its keys
Perms(S) == {p \in [1..Cardinality(S) -> S] : Range(p) = S}

KeyOrders(m) == Perms(DOMAIN m)

\* colors[node[0:3]]
Color(id) ==
    CASE id[1] = "LDS" -> "#4285F4"
      [] id[1] = "RDS" -> "#FBBC04"
      [] id[1] = "CDS" -> "#34A853"
      [] OTHER -> ""

\* the graph under construction: its nodes, keyed by name, in the order
\* they were first added, and its edges in the order they were added
EmptyGraph == [nodes |-> <<>>, edges |-> <<>>]

\* graph.AddNode("G", name, attrs): a node is identified by its name; adding
\* a name the graph already holds updates that node's attributes
AddNode(g, n, id) ==
    IF \E i \in DOMAIN g.nodes : g.nodes[i].name = n
    THEN [g EXCEPT !.nodes =
            [i \in DOMAIN g.nodes |->
                IF g.nodes[i].name = n
                THEN [name |-> n, label |-> id, color |-> Color(id)]
                ELSE g.nodes[i]]]
    ELSE [g EXCEPT !.nodes =
            Append(g.nodes, [name |-> n, label |-> id, color |-> Color(id)])]

\* graph.AddEdge(src, dst, true, attrs)
AddEdge(g, src, dst) == [g EXCEPT !.edges = Append(g.edges, <<src, dst>>)]

\* lines 321-325: one node map, walked in the order `order`
RECURSIVE AddNodes(_, _, _)
AddNodes(g, m, order) ==
    IF order = <<>> THEN g
    ELSE AddNodes(AddNode(g, Head(order), m[Head(order)]), m, Tail(order))

\* lines 329-333: the edges of one source, in the order of set.Values()
RECURSIVE AddEdgesOf(_, _, _)
AddEdgesOf(g, src, dsts) ==
    IF dsts = <<>> THEN g
    ELSE AddEdgesOf(AddEdge(g, src, Head(dsts)), src, Tail(dsts))

\* lines 328-334: one reference map, walked in the order `order`
RECURSIVE AddEdges(_, _, _)
AddEdges(g, rel, order) ==
    IF order = <<>> THEN g
    ELSE AddEdges(AddEdgesOf(g, Head(order), rel[Head(order)]), rel,
                  Tail(order))

\* graph.String(): the writer lists the edges in the order they were added
\* and the nodes sorted by name
RECURSIVE SortedNames(_)
SortedNames(S) ==
    IF S = {} THEN <<>>
    ELSE LET m == CHOOSE x \in S : \A y \in S : x <= y
         IN  <<m>> \o SortedNames(S \ {m})

Text(g) ==
    LET names == SortedNames({g.nodes[i].name : i \in DOMAIN g.nodes})
        node(n) == g.nodes[CHOOSE i \in DOMAIN g.nodes : g.nodes[i].name = n]
    IN  [nodes |-> [k \in DOMAIN names |-> node(names[k])],
         edges |-> g.edges]

\* generateGraph(data), the five maps walked in the orders o
generateGraph(data, o) ==
    LET g1 == AddNodes(EmptyGraph, data.nodes[1], o[1])
        g2 == AddNodes(g1, data.nodes[2], o[2])
        g3 == AddNodes(g2, data.nodes[3], o[3])
        g4 == AddEdges(g3, data.relations[1], o[4])
    IN  Text(AddEdges(g4, data.relations[2], o[5]))

\* the orders the run time may pick for the five maps of data
Orders(data) ==
    KeyOrders(data.nodes[1]) \X KeyOrders(data.nodes[2])
        \X KeyOrders(data.nodes[3]) \X KeyOrders(data.relations[1])
        \X KeyOrders(data.relations[2])

\* -------------------------------------------------------------- visualize
\* line 184 succeeds; the history of the finished parse is dropped
Generate ==
    /\ pc = "generate"
    /\ \E o \in Orders(gData) : dot' = generateGraph(gData, o)
    /\ monitor' \in BOOLEAN
    /\ pc' = "browser"
    /\ log' = <<>> /\ named' = {} /\ steps' = 0
    /\ UNCHANGED <<arr, idx, lds, rds, cds, ldsToRds, rdsToCds, name, set,
                   cause>>
    /\ UNCHANGED <<gData, ret, browser, file, dot2, printVars>>
    /\ UNCHANGED runVars

\* lines 185-187: the graph library reports an error
GenerateError ==
    /\ pc = "generate"
    /\ ret' = "errGenerate"
    /\ pc' = "done"
    /\ log' = <<>> /\ named' = {} /\ steps' = 0
    /\ UNCHANGED <<arr, idx, lds, rds, cds, ldsToRds, rdsToCds, name, set,
                   cause>>
    /\ UNCHANGED <<gData, monitor, dot, browser, file, dot2, printVars>>
    /\ UNCHANGED runVars

\* line 189 with the test of the monitor flag left out: the viewer is
\* started in monitor mode too
SkipBrowserLaunching ==
    /\ pc = "browser" /\ monitor = TRUE
    /\ browser' = "started"
    /\ pc' = "create"
    /\ UNCHANGED <<parseVars, gData, ret, monitor, dot, file, dot2, printVars>>
    /\ UNCHANGED runVars

\* line 189: monitor mode, openBrowser is not called
SkipBrowser ==
    /\ pc = "browser" /\ monitor = TRUE
    /\ pc' = "create"
    /\ UNCHANGED <<parseVars, gData, ret, monitor, dot, browser, file, dot2,
                   printVars>>
    /\ UNCHANGED runVars

\* lines 190-191, 341-357: the viewer process is started
OpenBrowserOk ==
    /\ pc = "browser" /\ monitor = FALSE
    /\ browser' = "started"
    /\ pc' = "create"
    /\ UNCHANGED <<parseVars, gData, ret, monitor, dot, file, dot2, printVars>>
    /\ UNCHANGED runVars

\* lines 191-193: exec's Start fails or the platform is unsupported;
\* visualize returns the error
OpenBrowserFail ==
    /\ pc = "browser" /\ monitor = FALSE
    /\ browser' = "failed"
    /\ ret' = "errBrowser"
    /\ pc' = "done"
    /\ UNCHANGED <<parseVars, gData, monitor, dot, file, dot2, printVars>>
    /\ UNCHANGED runVars

\* line 197: os.Create truncates or creates config_graph.dot
CreateFile ==
    /\ pc = "create"
    /\ file' = [state |-> "created", text |-> NoText]
    /\ pc' = "write"
    /\ UNCHANGED <<parseVars, gData, ret, monitor, dot, browser, dot2,
                   printVars>>
    /\ UNCHANGED runVars

\* lines 198-200
CreateFileFail ==
    /\ pc = "create"
    /\ ret' = "errCreate"
    /\ pc' = "done"
    /\ UNCHANGED <<parseVars, gData, monitor, dot, browser, file, dot2,
                   printVars>>
    /\ UNCHANGED runVars

\* lines 202-207: the text is written, visualize returns nil
WriteFile ==
    /\ pc = "write"
    /\ file' = [state |-> "written", text |-> dot]
    /\ ret' = "nil"
    /\ pc' = "done"
    /\ UNCHANGED <<parseVars, gData, monitor, dot, browser, dot2, printVars>>
    /\ UNCHANGED runVars

\* lines 203-205
WriteFileFail ==
    /\ pc = "write"
    /\ ret' = "errWrite"
    /\ pc' = "done"
    /\ UNCHANGED <<parseVars, gData, monitor, dot, browser, file, dot2,
                   printVars>>
    /\ UNCHANGED runVars

VisualizeNext ==
    \/ Generate \/ GenerateError \/ SkipBrowser \/ OpenBrowserOk
    \/ OpenBrowserFail \/ CreateFile \/ CreateFileFail \/ WriteFile
    \/ WriteFileFail

Next == ParseNext \/ VisualizeNext

Spec == Init /\ [][Next]_vars

\* ------------------------- generateGraph called twice on one GraphData
RenderFirst ==
    /\ pc = "generate"
    /\ \E o \in Orders(gData) : dot' = generateGraph(gData, o)
    /\ pc' = "render2"
    /\ log' = <<>> /\ named' = {} /\ steps' = 0
    /\ UNCHANGED <<arr, idx, lds, rds, cds, ldsToRds, rdsToCds, name, set,
                   cause>>
    /\ UNCHANGED <<gData, ret, monitor, browser, file, dot2, printVars>>
    /\ UNCHANGED runVars

RenderSecond ==
    /\ pc = "render2"
    /\ \E o \in Orders(gData) : dot2' = generateGraph(gData, o)
    /\ pc' = "rendered"
    /\ UNCHANGED <<parseVars, gData, ret, monitor, dot, browser, file,
                   printVars>>
    /\ UNCHANGED runVars

NextRender == ParseNext \/ RenderFirst \/ RenderSecond

SpecRender == Init /\ [][NextRender]_vars

\* ---------------------------------------------------- printOutResponse_v2
\* a PerXdsConfig: which member of its oneof is set ("none": not any) and
\* its status, whose String() is the name of the enum value
PerXds ==
    [kind : {"cluster", "listener", "route", "scopedRoute", "none"},
     status : {"SYNCED"}]

\* a ClientConfig as Recv() decodes it: the node if any, with its id and the
\* XDS_STREAM_TYPE string of its metadata ("" when the key is absent), and
\* the XdsConfig slice, nil (<<>>) when the entry has no config
Entries ==
    [node : {NoNode} \cup [id : {"client"}, type : {"", "ADS"}],
     xds : SeqsUpTo(PerXds, MaxXds)]

\* lines 217-226: the first getter of the chain that is not nil
XdsOf(c) ==
    CASE c.kind = "cluster" -> "CDS"
      [] c.kind = "listener" -> "LDS"
      [] c.kind = "route" -> "RDS"
      [] c.kind = "scopedRoute" -> "SRDS"
      [] OTHER -> ""

\* parseConfigStatus_v2
RECURSIVE parseConfigStatus_v2(_)
parseConfigStatus_v2(xdsConfig) ==
    IF xdsConfig = <<>> THEN <<>>
    ELSE LET c == Head(xdsConfig)
             rest == parseConfigStatus_v2(Tail(xdsConfig))
         IN  IF c.status # "" /\ XdsOf(c) # ""
             THEN <<<<XdsOf(c), c.status>>>> \o rest
             ELSE rest

Row(id, type, status) == [id |-> id, type |-> type, status |-> status]

EntryId(e) == IF e.node # NoNode THEN e.node.id ELSE ""

EntryType(e) == IF e.node # NoNode THEN e.node.type ELSE ""

PrintRowsAlwaysNA(e) ==
    IF e.xds = <<>> THEN <<Row(EntryId(e), EntryType(e), "N/A")>>
    ELSE LET cs == parseConfigStatus_v2(e.xds)
         IN  IF cs = <<>> THEN <<Row(EntryId(e), EntryType(e), "")>>
             ELSE [i \in DOMAIN cs |->
                     IF i = 1 THEN Row(EntryId(e), EntryType(e), cs[i])
                     ELSE Row("", "", cs[i])]

\* lines 246-280: the lines one iteration of the loop prints
PrintRows(e) ==
    IF e.xds = <<>>
    THEN IF e.node # NoNode
         THEN <<Row(EntryId(e), EntryType(e), "N/A")>>
         ELSE <<>>
    ELSE LET cs == parseConfigStatus_v2(e.xds)
         IN  IF cs = <<>> THEN <<Row(EntryId(e), EntryType(e), "")>>
             ELSE [i \in DOMAIN cs |->
                     IF i = 1 THEN Row(EntryId(e), EntryType(e), cs[i])
                     ELSE Row("", "", cs[i])]

\* lines 236-238: no client entry in the response (or a nil response)
PrintEmpty ==
    /\ pc = "print"
    /\ banner' = "No xDS clients connected."
    /\ ret' = "nil"
    /\ pc' = "printed"
    /\ UNCHANGED <<parseVars, gData, monitor, dot, browser, file, dot2>>
    /\ UNCHANGED <<nresp, entry, rows, hasXdsConfig, detail>>
    /\ UNCHANGED runVars

\* line 240: the column titles of a response with client entries
PrintHeader ==
    /\ pc = "print"
    /\ banner' = "Client ID, xDS stream type, Config Status"
    /\ pc' = "rows"
    /\ UNCHANGED <<parseVars, vizVars>>
    /\ UNCHANGED <<nresp, entry, rows, hasXdsConfig, detail>>
    /\ UNCHANGED runVars

\* lines 245-281: one iteration of the loop over the client entries
PrintEntry ==
    /\ pc = "rows" /\ nresp < MaxClients
    /\ \E e \in Entries :
          /\ entry' = e
          /\ rows' = PrintRows(e)
          /\ hasXdsConfig' = (hasXdsConfig \/ e.xds # <<>>)
    /\ nresp' = nresp + 1
    /\ UNCHANGED <<pc, parseVars, vizVars, banner, detail>>
    /\ UNCHANGED runVars

\* lines 283-288: the loop is over; printDetailedConfig is called when
\* some entry had config, and its error is returned
PrintFinish ==
    /\ pc = "rows" /\ nresp >= 1
    /\ IF hasXdsConfig
       THEN detail' = "called" /\ ret' \in {"nil", "errDetail"}
       ELSE detail' = detail /\ ret' = "nil"
    /\ pc' = "printed"
    /\ UNCHANGED <<parseVars, gData, monitor, dot, browser, file, dot2>>
    /\ UNCHANGED <<nresp, entry, rows, banner, hasXdsConfig>>
    /\ UNCHANGED runVars

InitPrint ==
    /\ pc = "print"
    /\ ParseInit /\ VizInit /\ PrintInit /\ RunInit

NextPrint == PrintEmpty \/ PrintHeader \/ PrintEntry \/ PrintFinish

SpecPrint == InitPrint /\ [][NextPrint]_vars

\* ------------------------------------------------------------ ClientV2.Run
\* c.opts.MonitorInterval: a time.Duration, tested with `!= 0` only
Intervals == {-1, 0, 1}

\* the calls of doRequest that can fail, and whether the message of the
\* error contains "RpcSecurityPolicy"
Errs == [site : {"send", "recv", "print"}, rsp : BOOLEAN]

\* the error value Run hands back for a failed doRequest
ErrName(site) ==
    CASE site = "send" -> "errSend"
      [] site = "recv" -> "errRecv"
      [] OTHER -> "errPrint"

\* lines 148-150: connWithAuth fails, Run returns before the defer
ConnFail ==
    /\ pc = "run"
    /\ ret' = "errConn"
    /\ pc' = "returned"
    /\ UNCHANGED <<parseVars, gData, monitor, dot, browser, file, dot2,
                   printVars, runVars>>

\* lines 148-151: connected; `defer c.clientConn.Close()` is registered
ConnOk ==
    /\ pc = "run"
    /\ conn' = "open"
    /\ pc' = "stream"
    /\ UNCHANGED <<parseVars, vizVars, printVars>>
    /\ UNCHANGED <<interval, streams, sent, oks, slept, recv, lastErr,
                   closeSend>>

\* lines 161-164: the first StreamClientStatus fails; the deferred Close runs
StreamFail ==
    /\ pc = "stream"
    /\ ret' = "errStream"
    /\ conn' = "closed"
    /\ pc' = "returned"
    /\ UNCHANGED <<parseVars, gData, monitor, dot, browser, file, dot2,
                   printVars>>
    /\ UNCHANGED <<interval, streams, sent, oks, slept, recv, lastErr,
                   closeSend>>

\* line 161: the stream is open, the loop of line 167 starts
StreamOk ==
    /\ pc = "stream"
    /\ streams' = streams + 1
    /\ pc' = "request"
    /\ UNCHANGED <<parseVars, vizVars, printVars>>
    /\ UNCHANGED <<interval, conn, sent, oks, slept, recv, lastErr,
                   closeSend>>

\* lines 168, 196-198: Send fails
DoRequestSendFail ==
    /\ pc = "request" /\ sent < MaxRequests
    /\ sent' = sent + 1
    /\ recv' = "none"
    /\ \E b \in BOOLEAN : lastErr' = [site |-> "send", rsp |-> b]
    /\ pc' = "failed"
    /\ UNCHANGED <<parseVars, vizVars, printVars>>
    /\ UNCHANGED <<interval, conn, streams, oks, slept, closeSend>>

\* lines 200-203: Recv fails with an error other than io.EOF
DoRequestRecvFail ==
    /\ pc = "request" /\ sent < MaxRequests
    /\ sent' = sent + 1
    /\ recv' = "err"
    /\ \E b \in BOOLEAN : lastErr' = [site |-> "recv", rsp |-> b]
    /\ pc' = "failed"
    /\ UNCHANGED <<parseVars, vizVars, printVars>>
    /\ UNCHANGED <<interval, conn, streams, oks, slept, closeSend>>

\* lines 200-209, 236-238: Recv gives io.EOF and a nil response, which
\* printOutResponse_v2 reports as no client; doRequest returns nil
DoRequestEOF ==
    /\ pc = "request" /\ sent < MaxRequests
    /\ sent' = sent + 1 /\ oks' = oks + 1
    /\ recv' = "EOF"
    /\ banner' = "No xDS clients connected."
    /\ lastErr' = NoErr
    /\ pc' = "after"
    /\ UNCHANGED <<parseVars, vizVars>>
    /\ UNCHANGED <<nresp, entry, rows, hasXdsConfig, detail>>
    /\ UNCHANGED <<interval, conn, streams, slept, closeSend>>

\* lines 200-209: a response is received and printed (of the printing only
\* the first line and the call of printDetailedConfig are kept here)
DoRequestOk ==
    /\ pc = "request" /\ sent < MaxRequests
    /\ sent' = sent + 1 /\ oks' = oks + 1
    /\ recv' = "resp"
    /\ \/ banner' = "No xDS clients connected." /\ detail' = detail
       \/ /\ banner' = "Client ID, xDS stream type, Config Status"
          /\ detail' \in {detail, "called"}
    /\ lastErr' = NoErr
    /\ pc' = "after"
    /\ UNCHANGED <<parseVars, vizVars>>
    /\ UNCHANGED <<nresp, entry, rows, hasXdsConfig>>
    /\ UNCHANGED <<interval, conn, streams, slept, closeSend>>

\* lines 205-207, 283-287: printDetailedConfig fails on a received response
DoRequestPrintFail ==
    /\ pc = "request" /\ sent < MaxRequests
    /\ sent' = sent + 1
    /\ recv' = "resp"
    /\ banner' = "Client ID, xDS stream type, Config Status"
    /\ detail' = "called"
    /\ \E b \in BOOLEAN : lastErr' = [site |-> "print", rsp |-> b]
    /\ pc' = "failed"
    /\ UNCHANGED <<parseVars, vizVars>>
    /\ UNCHANGED <<nresp, entry, rows, hasXdsConfig>>
    /\ UNCHANGED <<interval, conn, streams, oks, slept, closeSend>>

RetryStreamBounded ==
    /\ pc = "failed" /\ lastErr.rsp
    /\ IF streams < 2
       THEN /\ streams' = streams + 1
            /\ pc' = "request"
            /\ UNCHANGED <<ret, conn>>
       ELSE /\ ret' = ErrName(lastErr.site)
            /\ conn' = "closed"
            /\ pc' = "returned"
            /\ UNCHANGED streams
    /\ UNCHANGED <<parseVars, gData, monitor, dot, browser, file, dot2,
                   printVars>>
    /\ UNCHANGED <<interval, sent, oks, slept, recv, lastErr, closeSend>>

\* lines 171-176: the message contains "RpcSecurityPolicy"; a new stream is
\* opened and `continue` goes back to doRequest
RetryStreamOk ==
    /\ pc = "failed" /\ lastErr.rsp
    /\ streams' = streams + 1
    /\ pc' = "request"
    /\ UNCHANGED <<parseVars, vizVars, printVars>>
    /\ UNCHANGED <<interval, conn, sent, oks, slept, recv, lastErr,
                   closeSend>>

\* lines 172-175: opening the new stream fails
RetryStreamFail ==
    /\ pc = "failed" /\ lastErr.rsp
    /\ ret' = "errStream"
    /\ conn' = "closed"
    /\ pc' = "returned"
    /\ UNCHANGED <<parseVars, gData, monitor, dot, browser, file, dot2,
                   printVars>>
    /\ UNCHANGED <<interval, streams, sent, oks, slept, recv, lastErr,
                   closeSend>>

\* lines 177-179: any other error of doRequest is returned
ReturnRequestError ==
    /\ pc = "failed" /\ ~lastErr.rsp
    /\ ret' = ErrName(lastErr.site)
    /\ conn' = "closed"
    /\ pc' = "returned"
    /\ UNCHANGED <<parseVars, gData, monitor, dot, browser, file, dot2,
                   printVars>>
    /\ UNCHANGED <<interval, streams, sent, oks, slept, recv, lastErr,
                   closeSend>>

\* lines 181-182: monitor mode, sleep and go round the loop
Sleep ==
    /\ pc = "after" /\ interval # 0
    /\ slept' = slept + 1
    /\ pc' = "request"
    /\ UNCHANGED <<parseVars, vizVars, printVars>>
    /\ UNCHANGED <<interval, conn, streams, sent, oks, recv, lastErr,
                   closeSend>>

CloseSendOkAnyInterval ==
    /\ pc = "after"
    /\ closeSend' = "ok"
    /\ ret' = "nil"
    /\ conn' = "closed"
    /\ pc' = "returned"
    /\ UNCHANGED <<parseVars, gData, monitor, dot, browser, file, dot2,
                   printVars>>
    /\ UNCHANGED <<interval, streams, sent, oks, slept, recv, lastErr>>

\* lines 183-187: run once, CloseSend succeeds and Run returns nil
CloseSendOk ==
    /\ pc = "after" /\ interval = 0
    /\ closeSend' = "ok"
    /\ ret' = "nil"
    /\ conn' = "closed"
    /\ pc' = "returned"
    /\ UNCHANGED <<parseVars, gData, monitor, dot, browser, file, dot2,
                   printVars>>
    /\ UNCHANGED <<interval, streams, sent, oks, slept, recv, lastErr>>

\* lines 184-186: CloseSend fails
CloseSendFail ==
    /\ pc = "after" /\ interval = 0
    /\ closeSend' = "failed"
    /\ ret' = "errCloseSend"
    /\ conn' = "closed"
    /\ pc' = "returned"
    /\ UNCHANGED <<parseVars, gData, monitor, dot, browser, file, dot2,
                   printVars>>
    /\ UNCHANGED <<interval, streams, sent, oks, slept, recv, lastErr>>

InitRun ==
    /\ pc = "run"
    /\ ParseInit /\ VizInit /\ PrintInit
    /\ interval \in Intervals
    /\ conn = "none" /\ streams = 0 /\ sent = 0 /\ oks = 0 /\ slept = 0
    /\ recv = "none" /\ lastErr = NoErr /\ closeSend = "none"

NextRun ==
    \/ ConnFail \/ ConnOk \/ StreamFail \/ StreamOk
    \/ DoRequestSendFail \/ DoRequestRecvFail \/ DoRequestEOF \/ DoRequestOk
    \/ DoRequestPrintFail \/ RetryStreamOk \/ RetryStreamFail
    \/ ReturnRequestError \/ Sleep \/ CloseSendOk \/ CloseSendFail

SpecRun == InitRun /\ [][NextRun]_vars

\* ------------------------------------------------- what a scan consists of
\* the names of one category among the scanned elements
LogKeys(l, kind) == {l[i].name : i \in {j \in DOMAIN l : l[j].kind = kind}}

\* the names named by the last scanned element of that category and name
LastRefs(l, kind, n) ==
    LET I == {i \in DOMAIN l : l[i].kind = kind /\ l[i].name = n}
        last == CHOOSE i \in I : \A j \in I : j <= i
    IN  l[last].refs

\* lines 229-292 on the elements of l in that order, the short ids left out:
\* every element sets its name's entry, a later one replacing an earlier one
Extract(l) ==
    [L  |-> LogKeys(l, "LDS"), R |-> LogKeys(l, "RDS"), C |-> LogKeys(l, "CDS"),
     LR |-> [n \in LogKeys(l, "LDS") |-> LastRefs(l, "LDS", n)],
     RC |-> [n \in LogKeys(l, "RDS") |-> LastRefs(l, "RDS", n)]]

\* the node key sets and edge sets of a GraphData, the short ids left out
Shape(data) ==
    [L  |-> DOMAIN data.nodes[1], R |-> DOMAIN data.nodes[2],
     C  |-> DOMAIN data.nodes[3],
     LR |-> [n \in DOMAIN data.relations[1] |-> Range(data.relations[1][n])],
     RC |-> [n \in DOMAIN data.relations[2] |-> Range(data.relations[2][n])]]

Permute(l, p) == [i \in DOMAIN l |-> l[p[i]]]

\* the history of the scan and the GraphData it returns agree
LogFaithful == pc = "generate" => Shape(gData) = Extract(log)

\* ------------------------------------------------------------------ claims
\* generateGraph has returned its text to visualize
Rendered ==
    \/ pc \in {"browser", "create", "write"}
    \/ pc = "done" /\ ret \in {"nil", "errBrowser", "errCreate", "errWrite"}

ListenerKinds == {"activeState", "listener", "listener.name", "filterChains",
                  "filters", "typedConfig", "rds", "routeConfigName"}
RouteKinds == {"routeConfig", "routeConfig.name", "virtualHosts", "routes",
               "route", "clusters", "clusters.name", "cluster"}
ClusterKinds == {"cluster", "cluster.name"}

\* C1: whenever a config entry lacks an expected nested field or has one of
\* the wrong shape, parseXdsRelationship returns an error value naming the
\* category being processed, returns no partly filled graph, and visualize
\* creates no graph file.
C1_MalformedEntryReturnsCategoryError ==
    cause \in ListenerKinds \cup RouteKinds \cup ClusterKinds =>
        /\ pc = "done"
        /\ ret = CASE arr = "listenerConfig" -> "errListener"
                   [] arr = "routeConfig" -> "errRouteTable"
                   [] OTHER -> "errCluster"
        /\ gData = NoGraph
        /\ file = NoFile

\* C2: a filter whose typed payload is of an unrecognised type or carries no
\* route reference, and a listener without any filter chain, cause no error:
\* the extraction goes on (and the listener stays registered, without edge).
C2_NoRouteReferenceIsNoError ==
    cause \in {"filterChains", "typedConfig", "rds", "routeConfigName"} =>
        pc # "panic"

\* C3: after extraction the k-th distinct name of a category first met in
\* the scan carries the short id <prefix>(k-1), so no two names of one
\* category share an id.
C3_IdsFollowFirstEncounter ==
    pc = "generate" =>
        \A c \in 1..3 :
            LET kind == <<"LDS", "RDS", "CDS">>[c]
                first == {i \in DOMAIN log :
                            /\ log[i].kind = kind
                            /\ \A j \in 1..(i - 1) :
                                 ~(log[j].kind = kind
                                     /\ log[j].name = log[i].name)}
            IN  \A i \in first :
                    gData.nodes[c][log[i].name]
                        = <<kind, Cardinality({j \in first : j < i})>>

\* C4: after extraction the reference set of every route table holds exactly
\* the distinct cluster names its routes name, single-cluster and weighted
\* actions alike, each name once.
C4_RouteTableReferencesAreTheNamedClusters ==
    pc = "generate" =>
        \A n \in DOMAIN gData.relations[2] :
            LET s == gData.relations[2][n]
            IN  /\ Range(s) = LastRefs(log, "RDS", n)
                /\ Len(s) = Cardinality(LastRefs(log, "RDS", n))
                /\ \A i \in 1..(Len(s) - 1) : s[i] < s[i + 1]

\* a route table whose routes named clusters MaxRefs times, one name more
\* than once, has been extracted
C4_Witness ==
    /\ pc = "generate" /\ log # <<>>
    /\ log[Len(log)].kind = "RDS"
    /\ steps = MaxRefs
    /\ Cardinality(log[Len(log)].refs) < steps
    /\ Len(gData.relations[2][log[Len(log)].name]) = Cardinality(named)

\* C5: with monitor mode off, when the viewer launch fails the error is
\* returned and config_graph.dot already holds the rendered graph.
C5_FileWrittenAheadOfLaunchFailure ==
    browser = "failed" =>
        (ret = "errBrowser" /\ file = [state |-> "written", text |-> dot])

\* C6: a snapshot and any reordering of its entries yield the same node key
\* sets and the same edge sets.
C6_ReorderingKeepsNodesAndEdges ==
    pc = "generate" =>
        \A p \in Perms(DOMAIN log) :
            Extract(Permute(log, p)) = Shape(gData)

\* C7: for a cluster name a route table references and no cluster reports,
\* the rendered graph holds the edge from the route table to the name and no
\* styled node of that name.
C7_DanglingReferenceIsABareEdge ==
    Rendered =>
        \A rt \in DOMAIN gData.relations[2] :
            \A c \in Range(gData.relations[2][rt]) :
                c \notin DOMAIN gData.nodes[3] =>
                    /\ <<rt, c>> \in Range(dot.edges)
                    /\ \A i \in DOMAIN dot.nodes : dot.nodes[i].name # c

\* C8: two calls of generateGraph on one GraphData give the same text.
C8_RenderingIsDeterministic ==
    pc = "rendered" => dot = dot2

\* C9: the rendered graph holds one node per entry of each node map and one
\* edge per (source, destination) pair of the reference maps.
C9_OneNodePerEntryOneEdgePerPair ==
    Rendered =>
        /\ Len(dot.nodes) = Cardinality(DOMAIN gData.nodes[1])
                            + Cardinality(DOMAIN gData.nodes[2])
                            + Cardinality(DOMAIN gData.nodes[3])
        /\ \A r \in 1..2 : \A src \in DOMAIN gData.relations[r] :
              \A d \in Range(gData.relations[r][src]) :
                 Cardinality({i \in DOMAIN dot.edges :
                                dot.edges[i] = <<src, d>>})
                   = Cardinality({q \in 1..2 :
                        /\ src \in DOMAIN gData.relations[q]
                        /\ d \in Range(gData.relations[q][src])})

\* C10 as claimed: every client entry of a non-empty response gets a row,
\* and an entry without configuration entries gets the status "N/A", with
\* or without a node.
C10_EveryEntryWithoutConfigGetsNA ==
    nresp >= 1 =>
        /\ Len(rows) >= 1
        /\ entry.xds = <<>> => rows[1].status = "N/A"

\* C10 as amended: an entry with configuration entries gets one row with
\* its id and type (then one line per further status); an entry without
\* configuration entries gets the single row <id> <type> N/A when it
\* carries a node, and no row when it carries none.
C10_EntryWithoutConfigGetsNAOnlyWithNode ==
    nresp >= 1 =>
        /\ (entry.xds = <<>> /\ entry.node # NoNode) =>
              rows = <<Row(entry.node.id, entry.node.type, "N/A")>>
        /\ (entry.xds = <<>> /\ entry.node = NoNode) => rows = <<>>
        /\ entry.xds # <<>> =>
              /\ Len(rows) >= 1
              /\ rows[1].id = EntryId(entry)
              /\ rows[1].type = EntryType(entry)
              /\ \A i \in DOMAIN rows : rows[i].status # "N/A"
              /\ \A i \in 2..Len(rows) : rows[i].id = "" /\ rows[i].type = ""

\* an entry with neither node nor configuration entries has been handled
\* after another entry, and the run went on to its end
C10_Witness ==
    /\ pc = "printed" /\ nresp = 2
    /\ entry.xds = <<>> /\ entry.node = NoNode
    /\ rows = <<>>

\* C11: in every execution of visualize openBrowser is called if and only
\* if the monitor flag is false and extraction and rendering succeeded; with
\* monitor true the viewer is never launched, visualize still goes on to the
\* graph file, and when it returns nil the file holds the rendered graph.
C11_ViewerLaunchedIffNotMonitor ==
    /\ browser # "none" <=> (Rendered /\ pc # "browser" /\ monitor = FALSE)
    /\ (Rendered /\ monitor = TRUE) =>
          /\ browser = "none"
          /\ pc = "done" => ret \in {"nil", "errCreate", "errWrite"}
          /\ (pc = "done" /\ ret = "nil") =>
                file = [state |-> "written", text |-> dot]

\* visualize has returned nil in monitor mode: no viewer, the file written
C11_Witness ==
    /\ pc = "done" /\ ret = "nil" /\ monitor = TRUE
    /\ browser = "none"
    /\ file.state = "written" /\ file.text = dot
    /\ dot.nodes # <<>>

\* C12: ClientV2.Run returns nil only when MonitorInterval is 0, after
\* exactly one doRequest has succeeded and CloseSend has succeeded; with a
\* non-zero MonitorInterval Run never returns nil and every successful
\* doRequest is followed by the sleep and the next turn of the loop, where
\* doRequest is called again; and on every return after a successful
\* connWithAuth the connection has been closed.
C12_RunReturnsNilOnlyAfterOneRequest ==
    /\ [](/\ (pc = "returned" /\ ret = "nil") =>
                (interval = 0 /\ oks = 1 /\ closeSend = "ok")
          /\ (pc = "returned" /\ interval # 0) => ret # "nil"
          /\ interval # 0 => closeSend = "none"
          /\ (pc = "returned" /\ ret # "errConn") => conn = "closed"
          /\ (pc = "returned" /\ ret = "errConn") => conn = "none"
          /\ pc \in {"stream", "request", "failed", "after"} => conn = "open")
    /\ [][/\ oks' = oks + 1 => (pc = "request" /\ pc' = "after")
          /\ (pc = "after" /\ interval # 0) =>
                (pc' = "request" /\ slept' = slept + 1 /\ sent' = sent)
          /\ pc = "request" => sent' = sent + 1]_vars

\* Run has returned nil: one request failed on "RpcSecurityPolicy" and was
\* retried, the next one succeeded, CloseSend succeeded, the connection is
\* closed
C12_Witness ==
    /\ pc = "returned" /\ ret = "nil"
    /\ interval = 0 /\ sent = 2 /\ oks = 1 /\ streams = 2
    /\ closeSend = "ok" /\ conn = "closed"

\* C13: a doRequest error whose message contains "RpcSecurityPolicy" never
\* makes Run return by itself: a new stream is opened and the loop goes back
\* to doRequest at once, without sleeping and however many retries were
\* made before, and Run returns only when opening the new stream fails; any
\* other doRequest error makes Run return that error with no more request.
C13_SecurityPolicyErrorIsRetried ==
    /\ [](/\ (pc = "failed" /\ lastErr.rsp) => ENABLED RetryStreamOk
          /\ (pc = "returned" /\ ret \in {"errSend", "errRecv", "errPrint"}) =>
                (~lastErr.rsp /\ ret = ErrName(lastErr.site)))
    /\ [][/\ (pc = "failed" /\ lastErr.rsp) =>
                \/ /\ pc' = "request" /\ streams' = streams + 1
                   /\ slept' = slept /\ sent' = sent
                \/ /\ pc' = "returned" /\ ret' = "errStream"
                   /\ streams' = streams /\ sent' = sent
          /\ (pc = "failed" /\ ~lastErr.rsp) =>
                /\ pc' = "returned" /\ ret' = ErrName(lastErr.site)
                /\ sent' = sent /\ streams' = streams]_vars

\* every doRequest of the run failed on "RpcSecurityPolicy" and was retried
\* on a new stream, with no sleep in between
C13_Witness ==
    /\ pc = "request" /\ sent = MaxRequests /\ oks = 0
    /\ streams = MaxRequests + 1 /\ slept = 0
    /\ lastErr.rsp /\ interval # 0

\* C14: after every successful parseXdsRelationship the listener-to-route
\* reference map has the keys of the listener node map, the route-to-cluster
\* reference map has the keys of the route-table node map, and every short
\* id of a node map starts with its category's prefix, so that the colour
\* lookup of the renderer is defined.
C14_ReferenceKeysAreNodeKeys ==
    gData.nodes # <<>> =>
        /\ DOMAIN gData.relations[1] = DOMAIN gData.nodes[1]
        /\ DOMAIN gData.relations[2] = DOMAIN gData.nodes[2]
        /\ \A c \in 1..3 : \A n \in DOMAIN gData.nodes[c] :
              /\ gData.nodes[c][n][1] = <<"LDS", "RDS", "CDS">>[c]
              /\ Color(gData.nodes[c][n]) # ""

\* the scan returned a listener whose filters named no route table, and a
\* route table
C14_Witness ==
    /\ pc = "generate"
    /\ \E n \in DOMAIN gData.nodes[1] : gData.relations[1][n] = <<>>
    /\ DOMAIN gData.nodes[2] # {}

\* the last scanned element of that category and name
LastOf(l, kind, n) ==
    LET I == {i \in DOMAIN l : l[i].kind = kind /\ l[i].name = n}
    IN  l[CHOOSE i \in I : \A j \in I : j <= i]

\* C15: when a listener name or a route-table name occurs more than once in
\* a snapshot, parseXdsRelationship keeps for it the short id and the
\* reference set of the occurrence processed last, and nothing of the
\* reference sets of the earlier occurrences.
C15_LastOccurrenceReplacesEarlierOnes ==
    pc = "generate" =>
        \A c \in 1..2 :
            LET kind == <<"LDS", "RDS">>[c]
            IN  \A n \in LogKeys(log, kind) :
                    /\ gData.nodes[c][n] = LastOf(log, kind, n).id
                    /\ Range(gData.relations[c][n]) = LastOf(log, kind, n).refs

\* one name was scanned twice in one category, the first occurrence naming
\* a name the second does not, and the result holds the second's only
C15_Witness ==
    /\ pc = "generate" /\ Len(log) = 2
    /\ log[1].kind = log[2].kind /\ log[1].kind \in {"LDS", "RDS"}
    /\ log[1].name = log[2].name
    /\ log[1].refs \ log[2].refs # {}
    /\ log[1].id # log[2].id
    /\ LET c == IF log[1].kind = "LDS" THEN 1 ELSE 2
       IN  /\ Range(gData.relations[c][log[2].name]) = log[2].refs
           /\ gData.nodes[c][log[2].name] = log[2].id
====
